---- MODULE Spec2Model ----
(***************************************************************************)
(* DelegateAsyncWait.h: blocking asynchronous delegates.                   *)
(*                                                                         *)
(* A caller thread invokes a delegate bound to a target thread.  The call  *)
(* operator clones the delegate, sets the clone's m_refCnt to 2, posts a   *)
(* message to the target thread and waits on the clone's semaphore with    *)
(* m_timeout.  The target thread runs DelegateInvoke on the clone.  Both    *)
(* sides decrement m_refCnt under m_lock and the side that reaches 0       *)
(* deletes the message and the clone.                                      *)
(*                                                                         *)
(* The model follows the N=1 specialisations with a return type: the       *)
(* member variant (DelegateInvoke reads the argument before taking m_lock) *)
(* and the free variant (it reads the argument after taking m_lock).       *)
(* Every statement that touches state shared between threads is its own    *)
(* step.  Semaphore, LockGuard, DelegateThread and the bound function are  *)
(* not part of the header and are modelled from their contracts.           *)
(***************************************************************************)
EXTENDS Integers, FiniteSets, Sequences, TLC

\* ------------------------------------------------------------------ bounds
\* Total number of Invoke calls made on the delegate in one behaviour.
MaxCalls == 2
\* Number of objects a delegate compared, copied or assigned may be bound to.
MaxObjects == 2

\* --------------------------------------------------------------- constants
WAIT_INFINITE == -1

\* Caller threads that share the one delegate object, and the target thread.
Callers == {"A", "B"}
TargetThread == "T"

CloneIds == 1..MaxCalls
\* The arguments passed to Invoke: two distinct values (no step of the
\* protocol branches on the argument).
Args == {1, 2}

\* The argument values are interchangeable, so the argument of the first
\* Invoke on the delegate is named 1; every later Invoke takes either value.
ArgsFor(n) == IF n = 1 THEN {1} ELSE Args

\* The bound target function (the spec's square(x) = x*x).
Func(x) == x * x

\* The delegate's constructors leave m_retVal uninitialised: it starts with
\* some value, one no call computes (0) or one that a call computes.
UninitVals == {0, Func(1)}

\* The timeouts a delegate is constructed with: a finite one and WAIT_INFINITE.
Timeouts == {WAIT_INFINITE, 100}

\* The two shapes of DelegateInvoke.
Variants == {"member", "free"}

VARIABLES
    variant,    \* which specialisation is in use
    tmpl,       \* the delegate object Invoke is called on (`this`); assigned
                \* records whether m_retVal was ever written
    clone,      \* CloneIds -> the heap clone created by each asynchronous Invoke
    msg,        \* CloneIds -> the heap message created for each clone
    queue,      \* the target thread's message queue (ids of posted messages)
    caller,     \* Callers -> position and locals of each caller thread
    target,     \* position and locals of the target thread
    nextId,     \* the next clone to be allocated
    h,          \* CloneIds -> history of each call (observations only)
    uaf,        \* TRUE once any thread has touched freed memory
    val         \* two delegate objects and the last value operation on them

vars == <<variant, tmpl, clone, msg, queue, caller, target, nextId, h, uaf, val>>

\* ---------------------------------------------------------------- helpers

NoClone == [state |-> "none", m_thread |-> 0, m_timeout |-> 0, m_success |-> FALSE,
            m_refCnt |-> 0, m_sema |-> 0, m_lock |-> "free", m_retVal |-> 0]

NoMsg == [state |-> "none", invoker |-> 0, param1 |-> 0]

\* Deleted heap objects: their contents are gone.
FreedClone == [NoClone EXCEPT !.state = "freed"]
FreedMsg == [NoMsg EXCEPT !.state = "freed"]

NoHist == [owner |-> "none", arg |-> 0, wait |-> "none",
           calls |-> 0, stores |-> 0, signals |-> 0, consumed |-> 0,
           cDec |-> 0, tDec |-> 0, cDel |-> FALSE, tDel |-> FALSE,
           frees |-> 0, msgFrees |-> 0, freedBy |-> "none", zeroBy |-> "none",
           rcAtDispatch |-> -1, rcAtDelete |-> -1, seen |-> -1, cDecAtLock |-> -1,
           delivered |-> 0, computed |-> -1, msgAfter |-> -1, posted |-> 0]

\* before, hadResult and wasSuccess record m_retVal of the delegate, whether
\* it was ever written, and m_success, when the caller entered Invoke.
IdleCaller == [pc |-> "idle", call |-> 0, delegate |-> 0, msg |-> 0, p1 |-> 0, waitRes |-> FALSE,
               deleteData |-> FALSE, ret |-> 0, obsSuccess |-> FALSE, obsRetVal |-> 0,
               async |-> FALSE, before |-> 0, hadResult |-> FALSE,
               wasSuccess |-> FALSE]

IdleTarget == [pc |-> "idle", self |-> 0, msg |-> 0, param1 |-> 0, result |-> 0,
               deleteData |-> FALSE]

\* A copy that also takes the reference count, the semaphore count and the
\* lock state of its source.
CopyConstructAll(d) ==
    [state |-> "live", m_thread |-> d.m_thread, m_timeout |-> d.m_timeout,
     m_success |-> d.m_success, m_refCnt |-> d.m_refCnt, m_sema |-> d.m_sema,
     m_lock |-> d.m_lock, m_retVal |-> d.m_retVal]

\* Copy constructor of the delegate: the bound target and m_retVal are copied
\* member-wise, Swap copies m_thread, m_timeout and m_success, m_refCnt is 0
\* and the lock is the copy's own.
CopyConstruct(d) ==
    [state |-> "live", m_thread |-> d.m_thread, m_timeout |-> d.m_timeout,
     m_success |-> d.m_success, m_refCnt |-> 0, m_sema |-> 0, m_lock |-> "free",
     m_retVal |-> d.m_retVal]

\* Delegate objects as values.  type tells the class of the object: an
\* async-wait delegate, or the fire-and-forget asynchronous delegate of the
\* same signature, which also has a thread and a bound target.
Objects == 1 .. MaxObjects
Funcs == {"f", "g"}
Types == {"AsyncWait", "Async"}

\* A delegate the program holds to call Invoke on, and a clone in flight.
HeldState == [m_refCnt : {0}, m_sema : {0}, m_lock : {"free"}]
InFlightState == [m_refCnt : {2}, m_sema : {0, 1}, m_lock : {"free", "held"}]

Delegates(objects, funcs) ==
    {[type |-> "AsyncWait", object |-> o, func |-> f, m_thread |-> th,
      m_timeout |-> tm, m_success |-> su, m_retVal |-> rv,
      m_refCnt |-> st.m_refCnt, m_sema |-> st.m_sema, m_lock |-> st.m_lock] :
        o \in objects, f \in funcs, th \in {0, 1}, tm \in Timeouts, su \in BOOLEAN,
        rv \in UninitVals, st \in HeldState \cup InFlightState}

OtherDelegates ==
    {[type |-> "Async", object |-> o, func |-> f, m_thread |-> th,
      m_timeout |-> 0, m_success |-> FALSE, m_retVal |-> 0,
      m_refCnt |-> 0, m_sema |-> 0, m_lock |-> "free"] :
        o \in Objects, f \in Funcs, th \in {0, 1}}

\* dynamic_cast of rhs to the async-wait base class gives a non-null pointer.
DerivedRhs(rhs) == rhs.type = "AsyncWait"

\* Equality of the bound targets, in the synchronous delegate.
TargetEquals(a, b) == a.object = b.object /\ a.func = b.func

\* An equality that also looks at the timeout.
EqualsWithTimeout(a, rhs) ==
    /\ DerivedRhs(rhs)
    /\ a.m_thread = rhs.m_thread
    /\ a.m_timeout = rhs.m_timeout
    /\ TargetEquals(a, rhs)

\* operator==
Equals(a, rhs) ==
    /\ DerivedRhs(rhs)
    /\ a.m_thread = rhs.m_thread
    /\ TargetEquals(a, rhs)

Swap(a, s) ==
    [a EXCEPT !.m_thread = s.m_thread, !.m_timeout = s.m_timeout, !.m_success = s.m_success]

\* Assignment of the bound target, in the synchronous delegate.
TargetAssign(a, rhs) == [a EXCEPT !.object = rhs.object, !.func = rhs.func]

\* operator=; same tells that rhs is the object assigned to (&rhs == this).
Assign(a, rhs, same) == IF ~same THEN Swap(TargetAssign(a, rhs), rhs) ELSE a

\* The copy constructor of the whole object: the synchronous delegate's part
\* (the bound target), then the async-wait part.
CopyDelegate(rhs) ==
    LET c == CopyConstruct(rhs)
    IN  [type |-> rhs.type, object |-> rhs.object, func |-> rhs.func,
         m_thread |-> c.m_thread, m_timeout |-> c.m_timeout, m_success |-> c.m_success,
         m_retVal |-> c.m_retVal,
         m_refCnt |-> c.m_refCnt, m_sema |-> c.m_sema, m_lock |-> c.m_lock]

\* The default-constructed delegate.
DefaultDelegate ==
    [type |-> "AsyncWait", object |-> 0, func |-> "none", m_thread |-> 0,
     m_timeout |-> 0, m_success |-> FALSE, m_retVal |-> 0,
     m_refCnt |-> 0, m_sema |-> 0, m_lock |-> "free"]

NoVal == [lhs |-> DefaultDelegate, rhs |-> DefaultDelegate, op |-> "none",
          equal |-> FALSE, made |-> DefaultDelegate, old |-> DefaultDelegate]

\* Mutant: only the target thread's reference is counted.
InitRefCntSingle == 2 - 1

\* The reference count Invoke gives a fresh clone.
InitRefCnt == 2

\* Mutant: DelegateInvoke runs the function whenever the clone is still referenced.
ShouldInvokeIfReferenced(rc) == rc # 0

\* DelegateInvoke's test: the waiting thread has not released its reference.
ShouldInvoke(rc) == rc = 2

\* `--m_refCnt == 0`: the new count and whether the data is to be deleted.
\* Mutant: a thread gives up both references.
DecrementByTwo(rc) == rc - 2

Decrement(rc) == rc - 1

\* Mutant: the data is deleted by whoever releases a reference.
ReachedZeroOffByOne(rc) == rc <= 1

ReachedZero(rc) == rc = 0

\* Semaphore::Wait(timeout): TRUE when a signal is pending, FALSE when the
\* timeout elapses with none pending; WAIT_INFINITE never times out.
WaitCanSucceed(sema) == sema > 0
\* Mutant: the sentinel is not honoured, every wait is bounded.
WaitCanTimeOutAlways(sema, timeout) == sema = 0

WaitCanTimeOut(sema, timeout) == sema = 0 /\ timeout # WAIT_INFINITE

\* The two caller threads are interchangeable: "B" makes its first call only
\* after "A" has made one, which leaves out no behaviour up to renaming.
MayStart(t) == t = "A" \/ nextId > 1

\* History bookkeeping: when a caller starts its next call, the record of its
\* previous call k is dropped if that call is over on both threads.
Retire(hh, k) ==
    IF k # 0 /\ clone[k].state # "live"
    THEN [hh EXCEPT ![k] = [NoHist EXCEPT !.owner = "retired"]]
    ELSE hh

\* A thread touches heap object o: a use after free when it was deleted.
Touch(o) == o.state # "live"

\* -------------------------------------------------------------------- Init

Init ==
    /\ variant = "member"
    /\ tmpl \in [m_thread : {0, 1}, m_timeout : Timeouts, m_success : {FALSE},
                 m_refCnt : {0}, m_retVal : UninitVals, assigned : {FALSE}]
    /\ clone = [c \in CloneIds |-> NoClone]
    /\ msg = [c \in CloneIds |-> NoMsg]
    /\ queue = {}
    /\ caller = [t \in Callers |-> IdleCaller]
    /\ target = IdleTarget
    /\ nextId = 1
    /\ h = [c \in CloneIds |-> NoHist]
    /\ uaf = FALSE
    /\ val = NoVal

\* ------------------------------------------------- caller: operator()(p1)

\* Mutant: with m_thread == 0 the call goes down the asynchronous path.
C_InvokeSyncClones(t, p1) ==
    /\ MayStart(t)
    /\ caller[t].pc \in {"idle", "checked"}
    /\ tmpl.m_thread = 0
    /\ nextId <= MaxCalls
    /\ clone' = [clone EXCEPT ![nextId] =
                    [CopyConstruct(tmpl) EXCEPT !.m_refCnt = 2, !.m_sema = 0]]
    /\ caller' = [caller EXCEPT ![t] = [IdleCaller EXCEPT !.pc = "dispatch", !.p1 = p1,
                                                        !.call = nextId, !.delegate = nextId,
                                                        !.async = TRUE,
                                                        !.before = tmpl.m_retVal,
                                                        !.hadResult = tmpl.assigned]]
    /\ nextId' = nextId + 1
    /\ h' = [Retire(h, caller[t].call) EXCEPT ![nextId].owner = t, ![nextId].arg = p1]
    /\ UNCHANGED <<variant, tmpl, msg, queue, target, uaf, val>>

\* A fallback that reports like a signalled asynchronous call: it stores the
\* result in m_retVal and sets m_success.
C_InvokeSyncReports(t, p1) ==
    /\ MayStart(t)
    /\ caller[t].pc \in {"idle", "checked"}
    /\ tmpl.m_thread = 0
    /\ nextId <= MaxCalls
    /\ caller' = [caller EXCEPT ![t] = [IdleCaller EXCEPT !.pc = "returned", !.p1 = p1,
                                                        !.call = nextId, !.ret = Func(p1),
                                                        !.before = tmpl.m_retVal,
                                                        !.hadResult = tmpl.assigned,
                                                        !.wasSuccess = tmpl.m_success]]
    /\ tmpl' = [tmpl EXCEPT !.m_success = TRUE, !.m_retVal = Func(p1), !.assigned = TRUE]
    /\ nextId' = nextId + 1
    /\ h' = [Retire(h, caller[t].call) EXCEPT ![nextId].owner = t, ![nextId].arg = p1,
                                              ![nextId].calls = 1,
                                              ![nextId].computed = Func(p1)]
    /\ UNCHANGED <<variant, clone, msg, queue, target, uaf, val>>

\* m_thread == 0: the bound function is called directly on the calling thread.
C_InvokeSync(t, p1) ==
    /\ MayStart(t)
    /\ caller[t].pc \in {"idle", "checked"}
    /\ tmpl.m_thread = 0
    /\ nextId <= MaxCalls
    /\ caller' = [caller EXCEPT ![t] = [IdleCaller EXCEPT !.pc = "returned", !.p1 = p1,
                                                        !.call = nextId, !.ret = Func(p1),
                                                        !.before = tmpl.m_retVal,
                                                        !.hadResult = tmpl.assigned,
                                                        !.wasSuccess = tmpl.m_success]]
    /\ nextId' = nextId + 1
    /\ h' = [Retire(h, caller[t].call) EXCEPT ![nextId].owner = t, ![nextId].arg = p1,
                                              ![nextId].calls = 1,
                                              ![nextId].computed = Func(p1)]
    /\ UNCHANGED <<variant, tmpl, clone, msg, queue, target, uaf, val>>

\* Mutant: the clone is posted with the m_refCnt its copy constructor gave it.
C_CloneKeepsRefCnt(t, p1) ==
    /\ MayStart(t)
    /\ caller[t].pc \in {"idle", "checked"}
    /\ tmpl.m_thread # 0
    /\ nextId <= MaxCalls
    /\ clone' = [clone EXCEPT ![nextId] = [CopyConstruct(tmpl) EXCEPT !.m_sema = 0]]
    /\ caller' = [caller EXCEPT ![t] = [IdleCaller EXCEPT !.pc = "dispatch", !.p1 = p1,
                                                        !.call = nextId, !.delegate = nextId,
                                                        !.async = TRUE,
                                                        !.before = tmpl.m_retVal,
                                                        !.hadResult = tmpl.assigned]]
    /\ nextId' = nextId + 1
    /\ h' = [Retire(h, caller[t].call) EXCEPT ![nextId].owner = t, ![nextId].arg = p1]
    /\ UNCHANGED <<variant, tmpl, msg, queue, target, uaf, val>>

\* Mutant: the count of 2 is written to the delegate itself as well.
C_CloneCountsOnDelegate(t, p1) ==
    /\ MayStart(t)
    /\ caller[t].pc \in {"idle", "checked"}
    /\ tmpl.m_thread # 0
    /\ nextId <= MaxCalls
    /\ tmpl' = [tmpl EXCEPT !.m_refCnt = InitRefCnt]
    /\ clone' = [clone EXCEPT ![nextId] =
                    [CopyConstruct(tmpl) EXCEPT !.m_refCnt = InitRefCnt, !.m_sema = 0]]
    /\ caller' = [caller EXCEPT ![t] = [IdleCaller EXCEPT !.pc = "dispatch", !.p1 = p1,
                                                        !.call = nextId, !.delegate = nextId,
                                                        !.async = TRUE,
                                                        !.before = tmpl.m_retVal,
                                                        !.hadResult = tmpl.assigned]]
    /\ nextId' = nextId + 1
    /\ h' = [Retire(h, caller[t].call) EXCEPT ![nextId].owner = t, ![nextId].arg = p1]
    /\ UNCHANGED <<variant, msg, queue, target, uaf, val>>

\* Clone(); delegate->m_refCnt = 2; m_sema.Create(); m_sema.Reset().
C_Clone(t, p1) ==
    /\ MayStart(t)
    /\ caller[t].pc \in {"idle", "checked"}
    /\ tmpl.m_thread # 0
    /\ nextId <= MaxCalls
    /\ clone' = [clone EXCEPT ![nextId] =
                    [CopyConstruct(tmpl) EXCEPT !.m_refCnt = InitRefCnt, !.m_sema = 0]]
    /\ caller' = [caller EXCEPT ![t] = [IdleCaller EXCEPT !.pc = "dispatch", !.p1 = p1,
                                                        !.call = nextId, !.delegate = nextId,
                                                        !.async = TRUE,
                                                        !.before = tmpl.m_retVal,
                                                        !.hadResult = tmpl.assigned]]
    /\ nextId' = nextId + 1
    /\ h' = [Retire(h, caller[t].call) EXCEPT ![nextId].owner = t, ![nextId].arg = p1]
    /\ UNCHANGED <<variant, tmpl, msg, queue, target, uaf, val>>

\* msg = new DelegateMsg1(delegate, p1); m_thread->DispatchDelegate(msg).
C_Dispatch(t) ==
    LET d == caller[t].delegate IN
    /\ caller[t].pc = "dispatch"
    /\ msg' = [msg EXCEPT ![d] = [state |-> "live", invoker |-> d, param1 |-> caller[t].p1]]
    /\ queue' = queue \cup {d}
    /\ caller' = [caller EXCEPT ![t].pc = "wait", ![t].msg = d]
    /\ h' = [h EXCEPT ![d].rcAtDispatch = clone[d].m_refCnt, ![d].posted = @ + 1]
    /\ UNCHANGED <<variant, tmpl, clone, target, nextId, uaf, val>>

\* this->m_success = delegate->m_sema.Wait(this->m_timeout), signalled.
C_WaitSignalled(t) ==
    LET d == caller[t].delegate IN
    /\ caller[t].pc = "wait"
    /\ WaitCanSucceed(clone[d].m_sema)
    /\ clone' = [clone EXCEPT ![d].m_sema = @ - 1]
    /\ tmpl' = [tmpl EXCEPT !.m_success = TRUE]
    /\ caller' = [caller EXCEPT ![t].pc = "copy", ![t].waitRes = TRUE]
    /\ h' = [h EXCEPT ![d].wait = "signalled", ![d].consumed = @ + 1]
    /\ uaf' = (uaf \/ Touch(clone[d]))
    /\ UNCHANGED <<variant, msg, queue, target, nextId, val>>

\* Mutant: the wait is made with WAIT_INFINITE instead of m_timeout.
C_WaitIgnoresTimeout(t) ==
    LET d == caller[t].delegate IN
    /\ caller[t].pc = "wait"
    /\ WaitCanTimeOut(clone[d].m_sema, WAIT_INFINITE)
    /\ tmpl' = [tmpl EXCEPT !.m_success = FALSE]
    /\ caller' = [caller EXCEPT ![t].pc = "copy", ![t].waitRes = FALSE]
    /\ h' = [h EXCEPT ![d].wait = "timeout"]
    /\ uaf' = (uaf \/ Touch(clone[d]))
    /\ UNCHANGED <<variant, clone, msg, queue, target, nextId, val>>

\* Mutant: a timed-out call is posted to the target thread again.
C_WaitTimeoutRetries(t) ==
    LET d == caller[t].delegate IN
    /\ caller[t].pc = "wait"
    /\ WaitCanTimeOut(clone[d].m_sema, tmpl.m_timeout)
    /\ tmpl' = [tmpl EXCEPT !.m_success = FALSE]
    /\ queue' = queue \cup {d}
    /\ caller' = [caller EXCEPT ![t].pc = "copy", ![t].waitRes = FALSE]
    /\ h' = [h EXCEPT ![d].wait = "timeout"]
    /\ uaf' = (uaf \/ Touch(clone[d]))
    /\ UNCHANGED <<variant, clone, msg, target, nextId, val>>

\* this->m_success = delegate->m_sema.Wait(this->m_timeout), timed out.
C_WaitTimeout(t) ==
    LET d == caller[t].delegate IN
    /\ caller[t].pc = "wait"
    /\ WaitCanTimeOut(clone[d].m_sema, tmpl.m_timeout)
    /\ tmpl' = [tmpl EXCEPT !.m_success = FALSE]
    /\ caller' = [caller EXCEPT ![t].pc = "copy", ![t].waitRes = FALSE]
    /\ h' = [h EXCEPT ![d].wait = "timeout"]
    /\ uaf' = (uaf \/ Touch(clone[d]))
    /\ UNCHANGED <<variant, clone, msg, queue, target, nextId, val>>

\* Mutant: the result is not copied out of the clone.
C_CopyRetSkip(t) ==
    /\ caller[t].pc = "copy"
    /\ caller' = [caller EXCEPT ![t].pc = "lock"]
    /\ UNCHANGED <<variant, tmpl, clone, msg, queue, target, nextId, h, uaf, val>>

\* if ((this->m_success = ...)): the condition is the value just assigned, or
\* m_success read back from the delegate, which other callers write too.
Condition(t) == {caller[t].waitRes, tmpl.m_success}

\* The condition is false: the result is not copied.
C_SkipCopy(t) ==
    /\ caller[t].pc = "copy"
    /\ FALSE \in Condition(t)
    /\ caller' = [caller EXCEPT ![t].pc = "lock"]
    /\ UNCHANGED <<variant, tmpl, clone, msg, queue, target, nextId, h, uaf, val>>

\* The condition is true: m_retVal = delegate->m_retVal.
C_CopyRet(t) ==
    LET d == caller[t].delegate IN
    /\ caller[t].pc = "copy"
    /\ TRUE \in Condition(t)
    /\ tmpl' = [tmpl EXCEPT !.m_retVal = clone[d].m_retVal, !.assigned = TRUE]
    /\ caller' = [caller EXCEPT ![t].pc = "lock"]
    /\ uaf' = (uaf \/ Touch(clone[d]))
    /\ UNCHANGED <<variant, clone, msg, queue, target, nextId, h, val>>

\* Mutant: the caller enters its critical section without waiting for the lock.
C_LockNoWait(t) ==
    LET d == caller[t].delegate IN
    /\ caller[t].pc = "lock"
    /\ caller' = [caller EXCEPT ![t].pc = "decr"]
    /\ uaf' = (uaf \/ Touch(clone[d]))
    /\ UNCHANGED <<variant, tmpl, clone, msg, queue, target, nextId, h, val>>

\* LockGuard lockGuard(&delegate->m_lock).
C_Lock(t) ==
    LET d == caller[t].delegate IN
    /\ caller[t].pc = "lock"
    /\ clone[d].m_lock = "free"
    /\ clone' = [clone EXCEPT ![d].m_lock = t]
    /\ caller' = [caller EXCEPT ![t].pc = "decr"]
    /\ uaf' = (uaf \/ Touch(clone[d]))
    /\ UNCHANGED <<variant, tmpl, msg, queue, target, nextId, h, val>>

\* if (--delegate->m_refCnt == 0) deleteData = true.
C_Decr(t) ==
    LET d == caller[t].delegate
        rc == Decrement(clone[d].m_refCnt) IN
    /\ caller[t].pc = "decr"
    /\ clone' = [clone EXCEPT ![d].m_refCnt = rc]
    /\ caller' = [caller EXCEPT ![t].pc = "unlock", ![t].deleteData = ReachedZero(rc)]
    /\ h' = [h EXCEPT ![d].cDec = @ + 1,
                      ![d].cDel = ReachedZero(rc),
                      ![d].zeroBy = IF rc = 0 THEN t ELSE @]
    /\ uaf' = (uaf \/ Touch(clone[d]))
    /\ UNCHANGED <<variant, tmpl, msg, queue, target, nextId, val>>

\* Mutant: the caller leaves its critical section without releasing m_lock.
C_UnlockLeaksLock(t) ==
    /\ caller[t].pc = "unlock"
    /\ caller' = [caller EXCEPT ![t].pc = IF caller[t].deleteData THEN "delete" ELSE "return"]
    /\ UNCHANGED <<variant, tmpl, clone, msg, queue, target, nextId, h, uaf, val>>

\* Mutant: the deletes are inside the lock guard's scope.
C_UnlockAfterDelete(t) ==
    LET d == caller[t].delegate IN
    /\ caller[t].pc = "unlock"
    /\ caller' = [caller EXCEPT ![t].pc = IF caller[t].deleteData THEN "delete" ELSE "return"]
    /\ clone' = [clone EXCEPT ![d].m_lock = IF caller[t].deleteData THEN @ ELSE "free"]
    /\ uaf' = (uaf \/ Touch(clone[d]))
    /\ UNCHANGED <<variant, tmpl, msg, queue, target, nextId, h, val>>

\* End of the lock guard's scope.
C_Unlock(t) ==
    LET d == caller[t].delegate IN
    /\ caller[t].pc = "unlock"
    /\ clone' = [clone EXCEPT ![d].m_lock = "free"]
    /\ caller' = [caller EXCEPT ![t].pc = IF caller[t].deleteData THEN "delete" ELSE "return"]
    /\ uaf' = (uaf \/ Touch(clone[d]))
    /\ UNCHANGED <<variant, tmpl, msg, queue, target, nextId, h, val>>

\* Mutant: the caller deletes the clone and leaves the message.
C_DeleteCloneOnly(t) ==
    LET d == caller[t].delegate IN
    /\ caller[t].pc = "delete"
    /\ clone' = [clone EXCEPT ![d] = FreedClone]
    /\ caller' = [caller EXCEPT ![t].pc = "return"]
    /\ h' = [h EXCEPT ![d].frees = @ + 1, ![d].freedBy = t,
                      ![d].rcAtDelete = clone[d].m_refCnt]
    /\ uaf' = (uaf \/ Touch(clone[d]))
    /\ UNCHANGED <<variant, tmpl, msg, queue, target, nextId, val>>

\* if (deleteData) { delete msg; delete delegate; }
C_Delete(t) ==
    LET d == caller[t].delegate
        m == caller[t].msg IN
    /\ caller[t].pc = "delete"
    /\ msg' = [msg EXCEPT ![m] = FreedMsg]
    /\ clone' = [clone EXCEPT ![d] = FreedClone]
    /\ caller' = [caller EXCEPT ![t].pc = "return"]
    /\ h' = [h EXCEPT ![d].frees = @ + 1, ![d].msgFrees = @ + 1, ![d].freedBy = t,
                      ![d].rcAtDelete = clone[d].m_refCnt]
    /\ uaf' = (uaf \/ Touch(clone[d]) \/ Touch(msg[m]))
    /\ UNCHANGED <<variant, tmpl, queue, target, nextId, val>>

\* return m_retVal.
C_Return(t) ==
    /\ caller[t].pc = "return"
    /\ caller' = [caller EXCEPT ![t].pc = "returned", ![t].ret = tmpl.m_retVal,
                                ![t].delegate = 0, ![t].msg = 0, ![t].deleteData = FALSE]
    /\ UNCHANGED <<variant, tmpl, clone, msg, queue, target, nextId, h, uaf, val>>

\* After Invoke has returned the caller asks IsSuccess() and GetRetVal().
C_Observe(t) ==
    /\ caller[t].pc = "returned"
    /\ caller' = [caller EXCEPT ![t].pc = "checked",
                                ![t].obsSuccess = tmpl.m_success,
                                ![t].obsRetVal = tmpl.m_retVal]
    /\ UNCHANGED <<variant, tmpl, clone, msg, queue, target, nextId, h, uaf, val>>

\* ------------------------------------------- target thread: DelegateInvoke

\* The target thread takes a posted message and calls
\* msg->GetDelegateInvoker()->DelegateInvoke(&msg).
T_Dequeue ==
    /\ target.pc = "idle"
    /\ \E m \in queue :
        /\ queue' = queue \ {m}
        /\ target' = [IdleTarget EXCEPT !.pc = IF variant = "member" THEN "getparam" ELSE "lock",
                                        !.msg = m, !.self = msg[m].invoker]
        /\ h' = [h EXCEPT ![m].delivered = @ + 1]
        /\ uaf' = (uaf \/ Touch(msg[m]))
    /\ UNCHANGED <<variant, tmpl, clone, msg, caller, nextId, val>>

\* Param1 param1 = delegateMsg->GetParam1().
T_GetParam ==
    /\ target.pc = "getparam"
    /\ target' = [target EXCEPT !.param1 = msg[target.msg].param1,
                                !.pc = IF variant = "member" THEN "lock" ELSE "check"]
    /\ uaf' = (uaf \/ Touch(msg[target.msg]))
    /\ UNCHANGED <<variant, tmpl, clone, msg, queue, caller, nextId, h, val>>

\* Mutant: DelegateInvoke goes on without taking m_lock.
T_LockNotTaken ==
    LET d == target.self IN
    /\ target.pc = "lock"
    /\ target' = [target EXCEPT !.pc = IF variant = "member" THEN "check" ELSE "getparam"]
    /\ h' = [h EXCEPT ![d].cDecAtLock = h[d].cDec]
    /\ uaf' = (uaf \/ Touch(clone[d]))
    /\ UNCHANGED <<variant, tmpl, clone, msg, queue, caller, nextId, val>>

\* Mutant: the variant that reads the argument under the lock does not
\* read it at all.
T_LockSkipsGetParam ==
    LET d == target.self IN
    /\ target.pc = "lock"
    /\ clone[d].m_lock = "free"
    /\ clone' = [clone EXCEPT ![d].m_lock = TargetThread]
    /\ target' = [target EXCEPT !.pc = "check"]
    /\ h' = [h EXCEPT ![d].cDecAtLock = h[d].cDec]
    /\ uaf' = (uaf \/ Touch(clone[d]))
    /\ UNCHANGED <<variant, tmpl, msg, queue, caller, nextId, val>>

\* LockGuard lockGuard(&this->m_lock).
T_Lock ==
    LET d == target.self IN
    /\ target.pc = "lock"
    /\ clone[d].m_lock = "free"
    /\ clone' = [clone EXCEPT ![d].m_lock = TargetThread]
    /\ target' = [target EXCEPT !.pc = IF variant = "member" THEN "check" ELSE "getparam"]
    /\ h' = [h EXCEPT ![d].cDecAtLock = h[d].cDec]
    /\ uaf' = (uaf \/ Touch(clone[d]))
    /\ UNCHANGED <<variant, tmpl, msg, queue, caller, nextId, val>>

\* Mutant: the decrement sits inside the if, so the skip path releases nothing.
T_CheckSkipsDecrement ==
    LET d == target.self IN
    /\ target.pc = "check"
    /\ target' = [target EXCEPT !.pc = IF ShouldInvoke(clone[d].m_refCnt) THEN "call" ELSE "unlock"]
    /\ h' = [h EXCEPT ![d].seen = clone[d].m_refCnt]
    /\ uaf' = (uaf \/ Touch(clone[d]))
    /\ UNCHANGED <<variant, tmpl, clone, msg, queue, caller, nextId, val>>

\* Mutant: the bound function is called whatever m_refCnt is.
T_CheckAlwaysInvokes ==
    LET d == target.self IN
    /\ target.pc = "check"
    /\ target' = [target EXCEPT !.pc = "call"]
    /\ h' = [h EXCEPT ![d].seen = clone[d].m_refCnt]
    /\ uaf' = (uaf \/ Touch(clone[d]))
    /\ UNCHANGED <<variant, tmpl, clone, msg, queue, caller, nextId, val>>

\* if (this->m_refCnt == 2).
T_Check ==
    LET d == target.self IN
    /\ target.pc = "check"
    /\ target' = [target EXCEPT !.pc = IF ShouldInvoke(clone[d].m_refCnt) THEN "call" ELSE "decr"]
    /\ h' = [h EXCEPT ![d].seen = clone[d].m_refCnt]
    /\ uaf' = (uaf \/ Touch(clone[d]))
    /\ UNCHANGED <<variant, tmpl, clone, msg, queue, caller, nextId, val>>

\* Mutant: the bound function is called outside the lock guard's scope.
T_CallReleasesLock ==
    LET d == target.self IN
    /\ target.pc = "call"
    /\ clone' = [clone EXCEPT ![d].m_lock = "free"]
    /\ target' = [target EXCEPT !.pc = "store", !.result = Func(target.param1)]
    /\ h' = [h EXCEPT ![d].calls = @ + 1, ![d].computed = Func(target.param1)]
    /\ UNCHANGED <<variant, tmpl, msg, queue, caller, nextId, uaf, val>>

\* Mutant: the result of the bound function is dropped, the signal follows.
T_CallSkipsStore ==
    LET d == target.self IN
    /\ target.pc = "call"
    /\ target' = [target EXCEPT !.pc = "signal", !.result = Func(target.param1)]
    /\ h' = [h EXCEPT ![d].calls = @ + 1, ![d].computed = Func(target.param1)]
    /\ UNCHANGED <<variant, tmpl, clone, msg, queue, caller, nextId, uaf, val>>

\* The bound function is entered with param1.
T_Call ==
    LET d == target.self IN
    /\ target.pc = "call"
    /\ target' = [target EXCEPT !.pc = "store", !.result = Func(target.param1)]
    /\ h' = [h EXCEPT ![d].calls = @ + 1, ![d].computed = Func(target.param1)]
    /\ UNCHANGED <<variant, tmpl, clone, msg, queue, caller, nextId, uaf, val>>

\* The bound function returns and m_retVal is assigned its result.
T_Store ==
    LET d == target.self IN
    /\ target.pc = "store"
    /\ clone' = [clone EXCEPT ![d].m_retVal = target.result]
    /\ target' = [target EXCEPT !.pc = "signal"]
    /\ h' = [h EXCEPT ![d].stores = @ + 1]
    /\ uaf' = (uaf \/ Touch(clone[d]))
    /\ UNCHANGED <<variant, tmpl, msg, queue, caller, nextId, val>>

\* Mutant: `while (m_refCnt == 2)` in place of `if`.
T_SignalAndRetest ==
    LET d == target.self IN
    /\ target.pc = "signal"
    /\ clone' = [clone EXCEPT ![d].m_sema = @ + 1]
    /\ target' = [target EXCEPT !.pc = "check"]
    /\ h' = [h EXCEPT ![d].signals = @ + 1]
    /\ uaf' = (uaf \/ Touch(clone[d]))
    /\ UNCHANGED <<variant, tmpl, msg, queue, caller, nextId, val>>

\* Mutant: the semaphore is signalled twice.
T_SignalTwice ==
    LET d == target.self IN
    /\ target.pc = "signal"
    /\ clone' = [clone EXCEPT ![d].m_sema = @ + 2]
    /\ target' = [target EXCEPT !.pc = "decr"]
    /\ h' = [h EXCEPT ![d].signals = @ + 2]
    /\ uaf' = (uaf \/ Touch(clone[d]))
    /\ UNCHANGED <<variant, tmpl, msg, queue, caller, nextId, val>>

\* this->m_sema.Signal().
T_Signal ==
    LET d == target.self IN
    /\ target.pc = "signal"
    /\ clone' = [clone EXCEPT ![d].m_sema = @ + 1]
    /\ target' = [target EXCEPT !.pc = "decr"]
    /\ h' = [h EXCEPT ![d].signals = @ + 1]
    /\ uaf' = (uaf \/ Touch(clone[d]))
    /\ UNCHANGED <<variant, tmpl, msg, queue, caller, nextId, val>>

\* if (--this->m_refCnt == 0) deleteData = true.
T_Decr ==
    LET d == target.self
        rc == Decrement(clone[d].m_refCnt) IN
    /\ target.pc = "decr"
    /\ clone' = [clone EXCEPT ![d].m_refCnt = rc]
    /\ target' = [target EXCEPT !.pc = "unlock", !.deleteData = ReachedZero(rc)]
    /\ h' = [h EXCEPT ![d].tDec = @ + 1,
                      ![d].tDel = ReachedZero(rc),
                      ![d].zeroBy = IF rc = 0 THEN TargetThread ELSE @]
    /\ uaf' = (uaf \/ Touch(clone[d]))
    /\ UNCHANGED <<variant, tmpl, msg, queue, caller, nextId, val>>

\* Mutant: DelegateInvoke deletes the message and the clone in every case.
T_UnlockAlwaysDeletes ==
    LET d == target.self IN
    /\ target.pc = "unlock"
    /\ clone' = [clone EXCEPT ![d].m_lock = "free"]
    /\ target' = [target EXCEPT !.pc = "delete"]
    /\ h' = h
    /\ uaf' = (uaf \/ Touch(clone[d]))
    /\ UNCHANGED <<variant, tmpl, msg, queue, caller, nextId, val>>

\* End of the lock guard's scope; without deleteData DelegateInvoke returns
\* to the thread's message loop.
T_Unlock ==
    LET d == target.self IN
    /\ target.pc = "unlock"
    /\ clone' = [clone EXCEPT ![d].m_lock = "free"]
    /\ target' = IF target.deleteData THEN [target EXCEPT !.pc = "delete"] ELSE IdleTarget
    /\ h' = [h EXCEPT ![d].msgAfter = IF target.deleteData THEN @ ELSE target.msg]
    /\ uaf' = (uaf \/ Touch(clone[d]))
    /\ UNCHANGED <<variant, tmpl, msg, queue, caller, nextId, val>>

\* if (deleteData) { delete *msg; *msg = 0; delete this; } and DelegateInvoke
\* returns to the thread's message loop.
T_Delete ==
    LET d == target.self
        m == target.msg IN
    /\ target.pc = "delete"
    /\ msg' = [msg EXCEPT ![m] = FreedMsg]
    /\ clone' = [clone EXCEPT ![d] = FreedClone]
    /\ target' = IdleTarget
    /\ h' = [h EXCEPT ![d].frees = @ + 1, ![d].msgFrees = @ + 1, ![d].freedBy = TargetThread,
                      ![d].rcAtDelete = clone[d].m_refCnt, ![d].msgAfter = 0]
    /\ uaf' = (uaf \/ Touch(clone[d]) \/ Touch(msg[m]))
    /\ UNCHANGED <<variant, tmpl, queue, caller, nextId, val>>

\* -------------------------------------------------------------------- Next

\* A caller thread inside operator(), and afterwards asking IsSuccess().
CallerRun(t) ==
    \/ C_Dispatch(t)
    \/ C_WaitSignalled(t)
    \/ C_WaitTimeout(t)
    \/ C_SkipCopy(t)
    \/ C_CopyRet(t)
    \/ C_Lock(t)
    \/ C_Decr(t)
    \/ C_Unlock(t)
    \/ C_Delete(t)
    \/ C_Return(t)
    \/ C_Observe(t)

CallerNext(t) ==
    \/ \E p1 \in ArgsFor(nextId) : C_InvokeSync(t, p1)
    \/ \E p1 \in ArgsFor(nextId) : C_Clone(t, p1)
    \/ CallerRun(t)

TargetNext ==
    \/ T_Dequeue
    \/ T_GetParam
    \/ T_Lock
    \/ T_Check
    \/ T_Call
    \/ T_Store
    \/ T_Signal
    \/ T_Decr
    \/ T_Unlock
    \/ T_Delete

Next ==
    \/ \E t \in Callers : CallerNext(t)
    \/ TargetNext

Spec == Init /\ [][Next]_vars

\* Progress is independent of the values passed around (no guard reads
\* them), so the behaviours checked for progress pass one argument value and
\* start from one value of the uninitialised m_retVal.
FairInit == Init /\ tmpl.m_retVal = 0

FairCallerNext(t) ==
    \/ C_InvokeSync(t, 1)
    \/ C_Clone(t, 1)
    \/ CallerRun(t)

FairNext ==
    \/ \E t \in Callers : FairCallerNext(t)
    \/ TargetNext

\* Scheduling: every thread that can take a step eventually takes one.  The
\* target thread keeps draining its queue and the bound function returns.
FairSpec ==
    /\ FairInit
    /\ [][FairNext]_vars
    /\ WF_vars(TargetNext)
    /\ \A t \in Callers : WF_vars(FairCallerNext(t))

\* The target thread inside DelegateInvoke.
TargetRun ==
    \/ T_GetParam
    \/ T_Lock
    \/ T_Check
    \/ T_Call
    \/ T_Store
    \/ T_Signal
    \/ T_Decr
    \/ T_Unlock
    \/ T_Delete

\* Scheduling without a delivery promise: the callers keep running and a
\* DelegateInvoke that has begun runs to its end (the bound function
\* returns), but the target thread need never take a message off its queue.
NoDeliverySpec ==
    /\ FairInit
    /\ [][FairNext]_vars
    /\ WF_vars(TargetRun)
    /\ \A t \in Callers : WF_vars(FairCallerNext(t))

\* Either shape of DelegateInvoke: the delegate is a member or a free one.
VariantInit ==
    /\ variant \in Variants
    /\ tmpl \in [m_thread : {0, 1}, m_timeout : Timeouts, m_success : {FALSE},
                 m_refCnt : {0}, m_retVal : {0}, assigned : {FALSE}]
    /\ clone = [c \in CloneIds |-> NoClone]
    /\ msg = [c \in CloneIds |-> NoMsg]
    /\ queue = {}
    /\ caller = [t \in Callers |-> IdleCaller]
    /\ target = IdleTarget
    /\ nextId = 1
    /\ h = [c \in CloneIds |-> NoHist]
    /\ uaf = FALSE
    /\ val = NoVal

VariantSpec == VariantInit /\ [][Next]_vars

\* The delegate's owner binds it to another thread (or to none) between two
\* calls: Bind assigns m_thread and leaves every other field alone.
Bind(thread) ==
    /\ \A t \in Callers : caller[t].pc \in {"idle", "returned", "checked"}
    /\ thread # tmpl.m_thread
    /\ tmpl' = [tmpl EXCEPT !.m_thread = thread]
    /\ UNCHANGED <<variant, clone, msg, queue, caller, target, nextId, h, uaf, val>>

\* One caller that also re-binds its delegate between calls.
BindNext ==
    \/ CallerNext("A")
    \/ TargetNext
    \/ \E thread \in {0, 1} : Bind(thread)

BindSpec == Init /\ [][BindNext]_vars

\* ------------------------------------------- comparison, copy, assignment

\* Two delegate objects of one signature before any value operation; no call
\* is in progress on the delegate of the protocol.
ValueInit ==
    /\ variant = "member"
    /\ tmpl = [m_thread |-> 0, m_timeout |-> 0, m_success |-> FALSE, m_refCnt |-> 0,
               m_retVal |-> 0, assigned |-> FALSE]
    /\ clone = [c \in CloneIds |-> NoClone]
    /\ msg = [c \in CloneIds |-> NoMsg]
    /\ queue = {}
    /\ caller = [t \in Callers |-> IdleCaller]
    /\ target = IdleTarget
    /\ nextId = 1
    /\ h = [c \in CloneIds |-> NoHist]
    /\ uaf = FALSE
    /\ \E a \in Delegates({1}, {"f"}), b \in Delegates(Objects, Funcs) \cup OtherDelegates :
        val = [NoVal EXCEPT !.lhs = a, !.rhs = b]

\* lhs == rhs
V_Equals ==
    /\ val.op = "none"
    /\ val' = [val EXCEPT !.op = "equals", !.equal = Equals(val.lhs, val.rhs)]
    /\ UNCHANGED <<variant, tmpl, clone, msg, queue, caller, target, nextId, h, uaf>>

\* A new delegate is copy-constructed from rhs.
V_Copy ==
    /\ val.op = "none"
    /\ DerivedRhs(val.rhs)
    /\ val' = [val EXCEPT !.op = "copy", !.made = CopyDelegate(val.rhs)]
    /\ UNCHANGED <<variant, tmpl, clone, msg, queue, caller, target, nextId, h, uaf>>

\* lhs = rhs
V_Assign ==
    /\ val.op = "none"
    /\ DerivedRhs(val.rhs)
    /\ val' = [val EXCEPT !.op = "assign", !.old = val.lhs,
                          !.lhs = Assign(val.lhs, val.rhs, FALSE)]
    /\ UNCHANGED <<variant, tmpl, clone, msg, queue, caller, target, nextId, h, uaf>>

\* lhs = lhs
V_AssignSelf ==
    /\ val.op = "none"
    /\ val' = [val EXCEPT !.op = "assignSelf", !.old = val.lhs,
                          !.lhs = Assign(val.lhs, val.lhs, TRUE)]
    /\ UNCHANGED <<variant, tmpl, clone, msg, queue, caller, target, nextId, h, uaf>>

ValueNext ==
    \/ V_Equals
    \/ V_Copy
    \/ V_Assign
    \/ V_AssignSelf

ValueSpec == ValueInit /\ [][ValueNext]_vars

\* ------------------------------------------------------------------ claims

\* The asynchronous calls whose history is on record.
Calls == {c \in CloneIds : h[c].owner \in Callers /\ h[c].rcAtDispatch # -1}

\* Only caller "A" has used the delegate.
SingleCaller == caller["B"].pc = "idle"

\* Caller t is back from an asynchronous Invoke and has asked IsSuccess().
Asked(t) == caller[t].pc = "checked" /\ caller[t].async

\* C1: the bound function is invoked at most once on each call's clone.
C1_AtMostOnce == \A c \in CloneIds : h[c].calls <= 1

C1_Witness ==
    \E c, d \in Calls :
        /\ h[c].calls = 1 /\ h[c].wait = "timeout" /\ h[c].frees = 1
        /\ h[d].calls = 0 /\ h[d].frees = 1

\* C2: the clone and its message are deleted at most once, by the thread whose
\* decrement brought m_refCnt to 0 and with m_refCnt at 0; the caller and the
\* target never both set deleteData.
C2_ReleaseOnce ==
    \A c \in CloneIds :
        /\ h[c].frees <= 1
        /\ h[c].msgFrees <= 1
        /\ h[c].frees = 1 => h[c].freedBy = h[c].zeroBy /\ h[c].rcAtDelete = 0
        /\ ~(h[c].cDel /\ h[c].tDel)

C2_Witness ==
    \E c, d \in Calls :
        /\ h[c].frees = 1 /\ h[c].freedBy = TargetThread
        /\ h[d].frees = 1 /\ h[d].freedBy \in Callers

\* C3: with the message delivered and the bound function returning, every
\* clone an asynchronous Invoke creates is eventually deleted.
C3_NoLeak == \A c \in CloneIds : (clone[c].state = "live") ~> (clone[c].state = "freed")

C3_Witness ==
    \E c, d \in Calls :
        /\ clone[c].state = "freed" /\ h[c].wait = "timeout"
        /\ clone[d].state = "freed" /\ h[d].wait = "signalled"

\* C4: m_refCnt is 2 when the message is posted, each thread decrements it
\* exactly once, and it always lies in {0, 1, 2}.
C4_RefCount ==
    \A c \in CloneIds :
        /\ clone[c].m_refCnt \in {0, 1, 2}
        /\ h[c].owner \in Callers =>
            /\ h[c].rcAtDispatch \in {-1, 2}
            /\ h[c].cDec \in {0, 1}
            /\ h[c].tDec \in {0, 1}
            /\ (clone[c].state = "live" /\ h[c].rcAtDispatch # -1) =>
                    clone[c].m_refCnt = 2 - h[c].cDec - h[c].tDec
            /\ clone[c].state = "freed" => h[c].cDec = 1 /\ h[c].tDec = 1

C4_Witness ==
    \E c, d \in Calls :
        /\ clone[c].state = "freed"
        /\ clone[d].state = "live" /\ clone[d].m_refCnt = 0

\* C5 as stated: the target thread starts the bound function only while the
\* caller's wait has not returned by timeout.
C5_NeverStartedAfterTimeout ==
    target.pc = "call" => h[target.self].wait # "timeout"

\* C5 amended: the target thread runs the bound function only while the caller
\* has not yet decremented m_refCnt (its wait may already have timed out).
C5_NeverStartedAfterDecrement ==
    target.pc \in {"call", "store", "signal"} => h[target.self].cDec = 0

C5_Witness ==
    /\ target.pc = "call"
    /\ h[target.self].wait = "timeout"
    /\ caller[h[target.self].owner].pc = "lock"

\* C6: when the caller has decremented before the target thread acquires
\* m_lock, the function is not invoked, no result is written, no signal is
\* raised, and the target thread's decrement deletes the data.
C6_SkipAfterDecrement ==
    \A c \in CloneIds :
        h[c].cDecAtLock = 1 =>
            /\ h[c].calls = 0 /\ h[c].stores = 0 /\ h[c].signals = 0
            /\ h[c].seen \in {-1, 1}
            /\ h[c].tDec = 1 => h[c].tDel
            /\ h[c].msgAfter # -1 => h[c].frees = 1 /\ h[c].freedBy = TargetThread

C6_Witness ==
    \E c \in Calls :
        h[c].cDecAtLock = 1 /\ h[c].msgAfter = 0 /\ h[c].freedBy = TargetThread

\* C7: with a single caller, IsSuccess() after an asynchronous Invoke implies
\* that Invoke returned, and GetRetVal() returns, the value the function
\* computed on the target thread for the argument passed.
C7_SuccessImpliesResult ==
    SingleCaller =>
        \A t \in Callers :
            (Asked(t) /\ caller[t].obsSuccess) =>
                /\ h[caller[t].call].computed = Func(caller[t].p1)
                /\ caller[t].ret = Func(caller[t].p1)
                /\ caller[t].obsRetVal = Func(caller[t].p1)

C7_Witness ==
    /\ SingleCaller
    /\ Asked("A") /\ caller["A"].obsSuccess
    /\ caller["A"].call = 2 /\ caller["A"].p1 = 2 /\ caller["A"].ret = Func(2)

\* C8: IsSuccess() after an asynchronous Invoke implies that the call's
\* semaphore was signalled before the wait returned and that the function ran
\* exactly once and stored its result.
C8_SuccessMeansSignalled ==
    \A t \in Callers :
        (Asked(t) /\ caller[t].obsSuccess) =>
            /\ h[caller[t].call].wait = "signalled"
            /\ h[caller[t].call].calls = 1
            /\ h[caller[t].call].stores = 1

\* C9: when the caller's wait ended by timeout, IsSuccess() is false after
\* Invoke returns.
C9_TimeoutReported ==
    \A t \in Callers :
        (Asked(t) /\ h[caller[t].call].wait = "timeout") => ~caller[t].obsSuccess

\* C10: with two threads invoking the same delegate, the success flag and the
\* result a caller sees after its Invoke are those of its own call.
C10_PerCallIsolation ==
    \A t \in Callers :
        Asked(t) =>
            /\ caller[t].obsSuccess = (h[caller[t].call].wait = "signalled")
            /\ h[caller[t].call].wait = "signalled" =>
                    /\ caller[t].ret = Func(caller[t].p1)
                    /\ caller[t].obsRetVal = Func(caller[t].p1)

\* C11: with m_thread == 0, Invoke calls the bound function once on the calling
\* thread and returns its result; no clone or message exists, nothing is
\* queued, no wait is made and no reference count is touched.
C11_ZeroThreadFallback ==
    tmpl.m_thread = 0 =>
        /\ queue = {} /\ target.pc = "idle" /\ tmpl.m_refCnt = 0
        /\ \A c \in CloneIds :
            /\ clone[c].state = "none" /\ msg[c].state = "none"
            /\ h[c].posted = 0 /\ h[c].wait = "none" /\ h[c].cDec = 0 /\ h[c].tDec = 0
        /\ \A t \in Callers :
            /\ caller[t].pc \in {"idle", "returned", "checked"}
            /\ caller[t].pc # "idle" =>
                /\ ~caller[t].async
                /\ caller[t].ret = Func(caller[t].p1)
                /\ h[caller[t].call].owner = t
                /\ h[caller[t].call].calls = 1
                /\ h[caller[t].call].computed = caller[t].ret

C11_Witness ==
    /\ tmpl.m_thread = 0
    /\ caller["A"].pc = "checked" /\ caller["A"].p1 = 1 /\ caller["A"].ret = Func(1)
    /\ caller["B"].pc = "returned" /\ caller["B"].p1 = 2 /\ caller["B"].ret = Func(2)

\* Caller t is inside an asynchronous Invoke.
InAsyncInvoke(t) ==
    caller[t].pc \in {"dispatch", "wait", "copy", "lock", "decr", "unlock", "delete", "return"}

\* C12: with a finite timeout an asynchronous Invoke eventually returns to
\* its caller, also when the target thread never takes the message.
C12_BoundedWaitReturns ==
    \A t \in Callers :
        (tmpl.m_timeout # WAIT_INFINITE /\ InAsyncInvoke(t)) ~> (caller[t].pc = "returned")

C12_Witness ==
    /\ tmpl.m_timeout # WAIT_INFINITE
    /\ caller["A"].pc = "returned" /\ caller["A"].async
    /\ h[caller["A"].call].wait = "timeout"
    /\ h[caller["A"].call].delivered = 0
    /\ caller["A"].call \in queue

\* C13: once the caller's wait has returned, the caller never has to wait for
\* a bound function that is still running: when it comes to take m_lock, the
\* target thread is not holding that lock around the call of the function.
C13_WaitIsOnlySuspension ==
    \A t \in Callers :
        caller[t].pc = "lock" =>
            ~ /\ clone[caller[t].delegate].m_lock = TargetThread
              /\ target.self = caller[t].delegate
              /\ target.pc = "call"

\* Caller t is in an asynchronous Invoke and its wait has returned.
PastWait(t) ==
    /\ caller[t].async
    /\ caller[t].pc \in {"copy", "lock", "decr", "unlock", "delete", "return", "returned", "checked"}

\* C14: with timeout WAIT_INFINITE a caller gets past its wait only by the
\* signal, so only after its message was delivered and the bound function was
\* called exactly once, and IsSuccess() is then true; and when messages are
\* delivered and the function returns, the waiting caller eventually returns.
C14_InfiniteWait ==
    /\ [](tmpl.m_timeout = WAIT_INFINITE =>
            \A t \in Callers :
                /\ PastWait(t) =>
                    /\ h[caller[t].call].wait = "signalled"
                    /\ h[caller[t].call].delivered = 1
                    /\ h[caller[t].call].calls = 1
                    /\ h[caller[t].call].signals = 1
                /\ Asked(t) => caller[t].obsSuccess)
    /\ \A t \in Callers :
        (tmpl.m_timeout = WAIT_INFINITE /\ caller[t].pc = "wait") ~> Asked(t)

C14_Witness ==
    /\ tmpl.m_timeout = WAIT_INFINITE
    /\ Asked("A") /\ caller["A"].obsSuccess /\ h[caller["A"].call].calls = 1
    /\ caller["B"].pc = "wait" /\ h[caller["B"].call].delivered = 0

\* C15: an asynchronous Invoke makes one clone and posts one message, once,
\* and never again after its wait; a DelegateInvoke, also a late one for a
\* call that timed out, changes only its own clone: never the delegate's
\* success flag or result, never a caller, never the clone of another call;
\* and a clone's semaphore holds only signals of its own DelegateInvoke.
C15_NoRetryNoLeak ==
    [][ /\ \A c \in CloneIds :
            /\ h'[c].posted <= 1 /\ h'[c].delivered <= 1
            /\ (c \in queue' /\ c \notin queue) =>
                    /\ h[c].posted = 0 /\ h[c].wait = "none" /\ h'[c].posted = 1
                    /\ \E t \in Callers : caller[t].pc = "dispatch" /\ caller[t].delegate = c
            /\ (clone[c].state = "none" /\ clone'[c].state # "none") =>
                    /\ c = nextId /\ nextId' = nextId + 1 /\ clone'[c].state = "live"
                    /\ \A e \in CloneIds \ {c} : clone'[e] = clone[e]
            /\ clone'[c].state = "live" => clone'[c].m_sema = h'[c].signals - h'[c].consumed
        /\ \A t \in Callers :
            (caller'[t].pc = "wait" /\ caller[t].pc # "wait") =>
                /\ h'[caller'[t].call].posted = 1
                /\ caller'[t].call \in queue'
        /\ target' # target =>
            /\ tmpl' = tmpl /\ caller' = caller
            /\ \A c \in CloneIds \ {target.self, target'.self} : clone'[c] = clone[c]
      ]_vars

C15_Witness ==
    /\ h[1].owner = "A" /\ h[1].wait = "timeout" /\ h[1].posted = 1
    /\ target.self = 1 /\ target.pc = "decr" /\ h[1].calls = 0
    /\ caller["A"].call = 2 /\ caller["A"].pc = "wait" /\ h[2].posted = 1

\* The life-cycle state of a call, from its clone cl and its record hh.
PhaseOf(cl, hh) ==
    CASE cl.state = "none" -> "NotCreated"
      [] cl.state = "freed" -> "Released"
      [] cl.state = "live" /\ hh.posted = 0 -> "Created"
      [] cl.state = "live" /\ hh.posted # 0 /\ hh.wait = "none" -> "Dispatched"
      [] cl.state = "live" /\ hh.posted # 0 /\ hh.wait = "signalled" -> "Completed"
      [] cl.state = "live" /\ hh.posted # 0 /\ hh.wait = "timeout" -> "Abandoned"

LifeCycle ==
    { <<"NotCreated", "Created">>, <<"Created", "Dispatched">>,
      <<"Dispatched", "Completed">>, <<"Dispatched", "Abandoned">>,
      <<"Completed", "Released">>, <<"Abandoned", "Released">> }

\* C16: a call only moves Created -> Dispatched -> Completed (signal) or
\* Abandoned (timeout) -> Released; Completed and Abandoned never turn into
\* each other, a Released call stays Released and untouched, and no step of
\* either thread uses the clone or the message of a Released call.
C16_LifeCycle ==
    [][ /\ ~uaf'
        /\ \A c \in CloneIds :
            /\ \/ PhaseOf(clone'[c], h'[c]) = PhaseOf(clone[c], h[c])
               \/ <<PhaseOf(clone[c], h[c]), PhaseOf(clone'[c], h'[c])>> \in LifeCycle
            /\ PhaseOf(clone[c], h[c]) = "Released" =>
                /\ clone'[c] = clone[c] /\ msg'[c] = msg[c]
                /\ c \notin queue' /\ target'.self # c
                /\ \A t \in Callers : caller'[t].delegate = c => 
                    caller'[t].pc \in {"return", "returned", "checked"}
      ]_vars

C16_Witness ==
    /\ PhaseOf(clone[1], h[1]) = "Completed" /\ caller["A"].pc = "copy"
    /\ PhaseOf(clone[2], h[2]) = "Abandoned" /\ caller["B"].pc = "lock"

\* C17: when the caller had not decremented (so also when it was still in its
\* wait) as DelegateInvoke took m_lock, DelegateInvoke sees m_refCnt == 2,
\* calls the bound function once with the argument of the message, stores
\* the result and then signals: a signal is never raised before the store,
\* and a raised signal finds the result in the clone.
C17_ExecuteWhileWaiting ==
    \A c \in CloneIds :
        h[c].cDecAtLock = 0 =>
            /\ h[c].seen \in {-1, 2}
            /\ h[c].signals <= h[c].stores /\ h[c].stores <= h[c].calls /\ h[c].calls <= 1
            /\ h[c].calls = 1 => h[c].computed = Func(h[c].arg)
            /\ (h[c].stores = 1 /\ clone[c].state = "live") => clone[c].m_retVal = Func(h[c].arg)
            /\ h[c].tDec = 1 => (h[c].calls = 1 /\ h[c].stores = 1 /\ h[c].signals = 1)

C17_Witness ==
    /\ caller["A"].pc = "wait" /\ caller["A"].p1 = 2
    /\ h[caller["A"].call].cDecAtLock = 0
    /\ h[caller["A"].call].signals = 1
    /\ clone[caller["A"].delegate].m_retVal = Func(2)
    /\ target.self = caller["A"].delegate /\ target.pc = "decr"

\* C18: the clone has m_refCnt == 2 and an empty semaphore when its message
\* is posted; a posted clone never shows m_refCnt == 0 or a pending signal to
\* DelegateInvoke, which reads m_refCnt as 1 or 2 once it holds the lock.
C18_InitialisedBeforeDispatch ==
    /\ \A c \in CloneIds :
        /\ h[c].rcAtDispatch \in {-1, 2}
        /\ h[c].seen \in {-1, 1, 2}
        /\ c \in queue =>
            /\ clone[c].state = "live"
            /\ clone[c].m_refCnt \in {1, 2}
            /\ clone[c].m_sema = 0
            /\ h[c].wait = "none" => clone[c].m_refCnt = 2
    /\ target.pc \in {"getparam", "lock", "check"} =>
        /\ clone[target.self].m_refCnt \in {1, 2}
        /\ clone[target.self].m_sema = 0

C18_Witness ==
    /\ target.pc = "check"
    /\ clone[target.self].m_refCnt = 1
    /\ h[target.self].rcAtDispatch = 2
    /\ \E c \in queue : clone[c].m_refCnt = 2

\* C19: the caller copies the clone's m_retVal only after a wait that
\* returned true; the clone is then alive, DelegateInvoke has stored the
\* result of this call in it and is past the store.
C19_ResultSlotAccess ==
    \A t \in Callers :
        (caller[t].pc = "copy" /\ TRUE \in Condition(t)) =>
            /\ caller[t].waitRes
            /\ h[caller[t].delegate].wait = "signalled"
            /\ h[caller[t].delegate].stores = 1
            /\ clone[caller[t].delegate].state = "live"
            /\ clone[caller[t].delegate].m_retVal = h[caller[t].delegate].computed
            /\ ~(target.self = caller[t].delegate /\ target.pc \in {"check", "call", "store", "signal"})

\* C20: no thread uses the clone or the message after their deletion: no
\* access so far has met a deleted object, and every position from which a
\* thread is about to use the clone or the message finds that object alive
\* (the target thread before GetParam1 and before the lock, the caller before
\* its LockGuard after a time-out, a message still in the queue).
C20_NoUseAfterFree ==
    /\ ~uaf
    /\ \A t \in Callers :
        /\ caller[t].pc \in {"wait", "copy", "lock", "decr", "unlock", "delete"} =>
                clone[caller[t].delegate].state = "live"
        /\ caller[t].pc = "delete" => msg[caller[t].msg].state = "live"
    /\ target.pc \in {"getparam", "delete"} => msg[target.msg].state = "live"
    /\ target.pc # "idle" => clone[target.self].state = "live"
    /\ \A c \in queue : msg[c].state = "live" /\ clone[c].state = "live"

C20_Witness ==
    /\ target.pc = "getparam" /\ h[target.self].wait = "timeout" /\ h[target.self].cDec = 1
    /\ clone[target.self].m_refCnt = 1
    /\ \E t \in Callers :
        /\ caller[t].pc = "lock" /\ caller[t].delegate # target.self
        /\ h[caller[t].delegate].wait = "timeout"

\* C21: the decision to delete is taken by the thread that holds m_lock, and
\* a thread that is about to delete the clone finds its m_lock released: no
\* clone is deleted while any thread holds its lock.
C21_UnlockBeforeDelete ==
    /\ \A t \in Callers :
        /\ caller[t].pc = "unlock" =>
            /\ clone[caller[t].delegate].m_lock = t
            /\ caller[t].deleteData = (clone[caller[t].delegate].m_refCnt = 0)
        /\ caller[t].pc = "delete" =>
            /\ caller[t].deleteData
            /\ clone[caller[t].delegate].m_lock = "free"
    /\ target.pc = "unlock" =>
        /\ clone[target.self].m_lock = TargetThread
        /\ target.deleteData = (clone[target.self].m_refCnt = 0)
    /\ target.pc = "delete" =>
        /\ target.deleteData
        /\ clone[target.self].m_lock = "free"
    /\ \A c \in CloneIds : clone[c].state = "freed" => clone[c].m_lock = "free"

C21_Witness ==
    /\ target.pc = "delete" /\ clone[target.self].m_lock = "free"
    /\ \E t \in Callers :
        /\ caller[t].pc = "delete" /\ caller[t].delegate # target.self
        /\ clone[caller[t].delegate].m_lock = "free"

\* Positions of the target thread inside the lock guard's scope of
\* DelegateInvoke, in the variant in use.
TargetInGuard ==
    \/ target.pc \in {"check", "call", "store", "signal", "decr", "unlock"}
    \/ variant = "free" /\ target.pc = "getparam"

\* Positions of a caller inside the lock guard's scope of Invoke.
CallerInGuard(t) == caller[t].pc \in {"decr", "unlock"}

\* C22: a thread that reads or writes a posted clone's m_refCnt (the caller's
\* decrement, the target's test and decrement) holds that clone's m_lock; the
\* lock has one holder, so the two threads are never both inside; and the
\* target keeps the lock from its test to its decrement, which finds the
\* m_refCnt the test saw.
C22_RefCntUnderLock ==
    /\ \A t \in Callers :
        CallerInGuard(t) =>
            /\ clone[caller[t].delegate].m_lock = t
            /\ ~(TargetInGuard /\ target.self = caller[t].delegate)
            /\ \A u \in Callers \ {t} : ~(CallerInGuard(u) /\ caller[u].delegate = caller[t].delegate)
    /\ TargetInGuard =>
        /\ clone[target.self].m_lock = TargetThread
        /\ target.pc \in {"call", "store", "signal", "decr"} =>
                clone[target.self].m_refCnt = h[target.self].seen
    /\ \A c \in CloneIds :
        /\ clone[c].m_lock = TargetThread => (TargetInGuard /\ target.self = c)
        /\ clone[c].m_lock \in Callers =>
                (CallerInGuard(clone[c].m_lock) /\ caller[clone[c].m_lock].delegate = c)

C22_Witness ==
    /\ target.pc = "decr" /\ h[target.self].seen = 2
    /\ clone[target.self].m_lock = TargetThread
    /\ \E t \in Callers : caller[t].pc = "lock" /\ caller[t].delegate = target.self
    /\ \E t \in Callers : caller[t].pc = "decr" /\ caller[t].delegate # target.self

\* C23: a thread that is about to read the message's argument or the clone's
\* m_retVal holds the clone's m_lock.
C23_ReadsUnderLock ==
    /\ target.pc = "getparam" => clone[target.self].m_lock = TargetThread
    /\ \A t \in Callers :
        (caller[t].pc = "copy" /\ TRUE \in Condition(t)) =>
            clone[caller[t].delegate].m_lock = t

\* C24: the message and the clone of a call are deleted together by one
\* thread, never one without the other; once DelegateInvoke has returned,
\* *msg is 0 exactly when the target thread deleted the message, and is the
\* unchanged pointer otherwise.
C24_FreedTogether ==
    \A c \in CloneIds :
        /\ (clone[c].state = "freed") = (msg[c].state = "freed")
        /\ h[c].owner \in Callers =>
            /\ h[c].frees = h[c].msgFrees
            /\ (h[c].freedBy = "none") = (h[c].frees = 0)
            /\ h[c].msgAfter \in {-1, 0, c}
            /\ (h[c].msgAfter = 0) = (h[c].freedBy = TargetThread)
            /\ (h[c].tDec = 1 /\ target.self # c) => h[c].msgAfter # -1

C24_Witness ==
    /\ h[1].freedBy = TargetThread /\ h[1].msgAfter = 0
    /\ clone[1].state = "freed" /\ msg[1].state = "freed"
    /\ h[2].freedBy = "B" /\ h[2].msgAfter = 2
    /\ clone[2].state = "freed" /\ msg[2].state = "freed"

\* C25: a signal raised before the caller's wait is not lost: while it is
\* pending the wait cannot time out, and a caller whose wait took the signal
\* finds IsSuccess() true after its Invoke.
C25_NoLostWakeup ==
    \A t \in Callers :
        /\ (caller[t].pc = "wait" /\ clone[caller[t].delegate].m_sema > 0) =>
                ~WaitCanTimeOut(clone[caller[t].delegate].m_sema, tmpl.m_timeout)
        /\ caller[t].pc \in {"copy", "lock", "decr", "unlock", "delete", "return"} =>
                caller[t].waitRes = (h[caller[t].delegate].wait = "signalled")
        /\ (Asked(t) /\ h[caller[t].call].wait = "signalled") => caller[t].obsSuccess

\* C26: no step of DelegateInvoke takes a signal from a semaphore; the target
\* thread waits only when a caller inside its own critical section holds
\* m_lock, and such a caller is never itself waiting, nor is a target thread
\* that holds the lock a caller waits for; and every DelegateInvoke that has
\* begun comes to its end.
C26_TargetProgress ==
    /\ [][ target' # target =>
            \A c \in CloneIds :
                clone'[c].state = "live" => clone'[c].m_sema >= clone[c].m_sema ]_vars
    /\ [] /\ (target.pc = "lock" /\ clone[target.self].m_lock # "free") =>
                /\ clone[target.self].m_lock \in Callers
                /\ caller[clone[target.self].m_lock].pc \in {"decr", "unlock"}
          /\ \A t \in Callers :
                (caller[t].pc = "lock" /\ clone[caller[t].delegate].m_lock # "free") =>
                    /\ clone[caller[t].delegate].m_lock = TargetThread
                    /\ target.pc \in {"check", "call", "store", "signal", "decr", "unlock"}
    /\ (target.pc # "idle") ~> (target.pc = "idle")

C26_Witness ==
    /\ target.pc = "lock"
    /\ clone[target.self].m_lock = "A"
    /\ caller["A"].pc = "decr" /\ caller["A"].delegate = target.self
    /\ \E c \in CloneIds : h[c].tDec = 1

\* C27: no step changes m_thread or m_timeout of the delegate that Invoke is
\* called on, its m_refCnt is 0 before and after every step, and every live
\* clone carries the delegate's m_thread and m_timeout; the count of
\* references lives in the clones only.
C27_TemplateImmutable ==
    [][ /\ tmpl'.m_thread = tmpl.m_thread
        /\ tmpl'.m_timeout = tmpl.m_timeout
        /\ tmpl.m_refCnt = 0 /\ tmpl'.m_refCnt = 0
        /\ \A c \in CloneIds :
            clone'[c].state = "live" =>
                /\ clone'[c].m_thread = tmpl.m_thread
                /\ clone'[c].m_timeout = tmpl.m_timeout
      ]_vars

C27_Witness ==
    /\ Asked("A") /\ caller["A"].call = 2
    /\ tmpl.m_refCnt = 0 /\ tmpl.m_thread # 0
    /\ clone[2].state = "live" /\ clone[2].m_refCnt = 1
    /\ clone[1].state = "freed"

\* C28: in both shapes of DelegateInvoke (argument read before the lock or
\* under it) the outcomes of a call are the same function of the order of
\* the two critical sections: the target sees m_refCnt == 2 exactly when the
\* caller had not decremented, it then calls the function once with the
\* argument of the message, stores and signals once, and otherwise does
\* none of them; the second decrement deletes; nothing deleted is used.
C28_OneProtocol ==
    /\ ~uaf
    /\ target.pc \in {"check", "call"} => target.param1 = h[target.self].arg
    /\ \A c \in CloneIds :
        (h[c].owner \in Callers /\ tmpl.m_thread # 0) =>
            /\ h[c].seen \in {-1, 1, 2}
            /\ h[c].seen # -1 => ((h[c].seen = 2) = (h[c].cDecAtLock = 0))
            /\ h[c].calls > 0 => (h[c].seen = 2 /\ h[c].computed = Func(h[c].arg))
            /\ h[c].tDec = 1 =>
                /\ h[c].calls = (IF h[c].seen = 2 THEN 1 ELSE 0)
                /\ h[c].stores = h[c].calls /\ h[c].signals = h[c].calls
            /\ h[c].wait = "signalled" => (h[c].signals = 1 /\ h[c].seen = 2)
            /\ h[c].frees <= 1
            /\ (h[c].frees = 1) = (h[c].cDec = 1 /\ h[c].tDec = 1 /\ clone[c].state = "freed")
            /\ h[c].frees = 1 => ((h[c].freedBy = TargetThread) = (h[c].seen = 1))

C28_Witness ==
    /\ variant = "free"
    /\ target.pc = "getparam" /\ clone[target.self].m_lock = TargetThread
    /\ \E t \in Callers :
        /\ caller[t].pc = "lock" /\ caller[t].delegate = target.self
        /\ h[target.self].wait = "timeout"
    /\ \E c \in CloneIds : h[c].frees = 1 /\ h[c].freedBy = TargetThread

\* C29: the target thread deletes the clone and the message exactly when it
\* skipped the bound function and the caller deletes them exactly when the
\* function was called; so a call whose wait was signalled is deleted by
\* its caller.
C29_WhoFrees ==
    /\ target.deleteData => h[target.self].calls = 0
    /\ \A t \in Callers :
        (caller[t].pc \in {"unlock", "delete"} /\ caller[t].deleteData) =>
            h[caller[t].delegate].calls = 1
    /\ \A c \in CloneIds :
        (h[c].owner \in Callers /\ h[c].frees = 1) =>
            /\ (h[c].freedBy = TargetThread) = (h[c].calls = 0)
            /\ (h[c].freedBy = h[c].owner) = (h[c].calls = 1)
            /\ h[c].wait = "signalled" => h[c].freedBy = h[c].owner

C29_Witness ==
    /\ h[1].frees = 1 /\ h[1].freedBy = TargetThread /\ h[1].calls = 0
    /\ h[2].frees = 1 /\ h[2].freedBy = "B" /\ h[2].calls = 1 /\ h[2].wait = "timeout"

\* C30: from the start of the bound function to the target's own decrement
\* the target thread holds the clone's m_lock, the clone is alive with
\* m_refCnt == 2, and its caller has neither decremented nor entered its
\* critical section.
C30_AliveWhileExecuting ==
    (target.pc \in {"call", "store", "signal"} \/ (target.pc = "decr" /\ h[target.self].calls = 1)) =>
        /\ clone[target.self].state = "live"
        /\ clone[target.self].m_lock = TargetThread
        /\ msg[target.msg].state = "live"
        /\ clone[target.self].m_refCnt = 2
        /\ h[target.self].cDec = 0
        /\ \A t \in Callers :
            caller[t].delegate = target.self =>
                caller[t].pc \in {"wait", "copy", "lock"}

C30_Witness ==
    /\ target.pc = "store" /\ clone[target.self].m_refCnt = 2
    /\ \E t \in Callers :
        /\ caller[t].delegate = target.self /\ caller[t].pc = "lock"
        /\ h[target.self].wait = "timeout"

\* C31: a clone's semaphore is signalled at most once, by DelegateInvoke in
\* the branch that called the bound function; its count is 0 or 1 and is
\* the signals raised less the signals taken by the caller's wait; a clone
\* is deleted with a signal not taken only after its caller's wait timed out.
C31_SignalAtMostOnce ==
    \A c \in CloneIds :
        /\ h[c].signals <= 1
        /\ h[c].signals <= h[c].calls
        /\ h[c].signals = 1 => h[c].seen = 2
        /\ h[c].consumed <= h[c].signals
        /\ clone[c].state = "live" =>
            /\ clone[c].m_sema \in {0, 1}
            /\ clone[c].m_sema = h[c].signals - h[c].consumed
        /\ (h[c].frees = 1 /\ h[c].signals - h[c].consumed = 1) => h[c].wait = "timeout"

C31_Witness ==
    \E c \in CloneIds :
        /\ h[c].frees = 1 /\ clone[c].state = "freed"
        /\ h[c].signals = 1 /\ h[c].consumed = 0
        /\ h[c].wait = "timeout"

BackFromSync(t) ==
    /\ caller[t].pc \in {"returned", "checked"}
    /\ caller[t].call # 0
    /\ ~caller[t].async

\* C33: an Invoke with m_thread == 0 returns the bound function's result and
\* leaves m_success and m_retVal of the delegate as they were on entry, so
\* IsSuccess() and GetRetVal() afterwards give the values from before the
\* call; on a delegate that has made no call before, IsSuccess() is false.
C33_FallbackKeepsSuccess ==
    \A t \in Callers :
        BackFromSync(t) =>
            /\ caller[t].ret = Func(caller[t].p1)
            /\ tmpl.m_success = caller[t].wasSuccess
            /\ tmpl.m_retVal = caller[t].before
            /\ tmpl.assigned = caller[t].hadResult
            /\ caller[t].pc = "checked" =>
                /\ caller[t].obsSuccess = caller[t].wasSuccess
                /\ caller[t].obsRetVal = caller[t].before
            /\ caller[t].call = 1 => ~tmpl.m_success

\* After a signalled asynchronous call the delegate was bound to no thread;
\* the next Invoke ran the function directly and IsSuccess() is still true,
\* GetRetVal() still the earlier result, which differs from the value
\* this Invoke returned.
C33_Witness ==
    \E t \in Callers :
        /\ BackFromSync(t) /\ caller[t].pc = "checked"
        /\ caller[t].wasSuccess /\ caller[t].obsSuccess
        /\ caller[t].hadResult
        /\ caller[t].obsRetVal = caller[t].before
        /\ caller[t].obsRetVal # caller[t].ret

\* C34: an async-wait delegate compares equal to another delegate exactly
\* when the other is an async-wait delegate of the same signature with the
\* same m_thread and an equal bound target (object and function); m_timeout,
\* m_success, m_refCnt and the stored result take no part, and a delegate of
\* another type is never equal.
C34_Equality ==
    val.op = "equals" =>
        /\ val.equal <=>
                /\ val.rhs.type = "AsyncWait"
                /\ val.lhs.m_thread = val.rhs.m_thread
                /\ val.lhs.object = val.rhs.object
                /\ val.lhs.func = val.rhs.func
        /\ val.rhs.type # "AsyncWait" => ~val.equal

C34_Witness ==
    /\ val.op = "equals" /\ val.equal
    /\ val.lhs.m_timeout # val.rhs.m_timeout
    /\ val.lhs.m_success # val.rhs.m_success
    /\ val.lhs.m_refCnt # val.rhs.m_refCnt
    /\ val.lhs.m_retVal # val.rhs.m_retVal

\* C35: a copy-constructed delegate has m_refCnt 0, a free lock and an
\* unsignalled semaphore of its own, and the source's m_thread, m_timeout,
\* m_success and bound target; assignment gives the destination the
\* source's m_thread, m_timeout, m_success and bound target and leaves its
\* m_refCnt, lock and semaphore as they were; self-assignment changes
\* nothing.
C35_CopyAndAssign ==
    /\ val.op = "copy" =>
        /\ val.made.m_refCnt = 0
        /\ val.made.m_lock = "free"
        /\ val.made.m_sema = 0
        /\ val.made.m_thread = val.rhs.m_thread
        /\ val.made.m_timeout = val.rhs.m_timeout
        /\ val.made.m_success = val.rhs.m_success
        /\ TargetEquals(val.made, val.rhs)
    /\ val.op = "assign" =>
        /\ val.lhs.m_thread = val.rhs.m_thread
        /\ val.lhs.m_timeout = val.rhs.m_timeout
        /\ val.lhs.m_success = val.rhs.m_success
        /\ TargetEquals(val.lhs, val.rhs)
        /\ val.lhs.m_refCnt = val.old.m_refCnt
        /\ val.lhs.m_lock = val.old.m_lock
        /\ val.lhs.m_sema = val.old.m_sema
    /\ val.op = "assignSelf" => val.lhs = val.old

\* The source of the copy is a clone in flight: referenced twice, locked and
\* signalled.
C35_Witness ==
    /\ val.op = "copy"
    /\ val.rhs.m_refCnt = 2 /\ val.rhs.m_lock = "held" /\ val.rhs.m_sema = 1
    /\ val.rhs.m_success /\ val.rhs.m_thread = 1
    /\ val.made.m_refCnt = 0 /\ val.made.m_lock = "free" /\ val.made.m_sema = 0
    /\ val.made.m_success /\ val.made.m_thread = 1

====
